---- MODULE Spec2Model ----
(***************************************************************************)
(* Model of velox/experimental/wave/exec/ExprKernel.cu: the fused          *)
(* interpreter kernel (waveBaseKernel), the stepping driver                *)
(* (WaveKernelStream::callOne), the dispatch entry point                   *)
(* (WaveKernelStream::call), instructionSharedMemory and the aggregation   *)
(* setup (setupAggregationKernel, WaveKernelStream::setupAggregation).     *)
(*                                                                         *)
(* The host is a sequential program whose position is hpc.  The device is  *)
(* a set of streams, each a FIFO of launched kernels; a kernel runs when   *)
(* it is at the head of its stream and is removed when it has completed.   *)
(* wait() on a stream returns when that stream's queue is empty.           *)
(* The per-opcode numeric kernels are outside the file, so the effect of   *)
(* applying an instruction to a block is recorded as the step              *)
(* <<instruction index, opcode>> appended to that block's history.         *)
(* Array indices and program counters are 0-based as in the source;        *)
(* sequences are 1-based, so element i of array a is a[i + 1].             *)
(***************************************************************************)
EXTENDS Integers, Sequences, FiniteSets, TLC

\* ------------------------------------------------------------------ bounds
\* Total number of instructions before the Return terminators, summed over
\* the programs of one call.
MaxInstr == 2

\* Number of programs (block groups) of one call.
ProgramCounts == {0, 1, 2}
\* Number of consecutive blocks that share one program.
BlocksPerProgram == {1, 2}
\* Entries of the resume array: the sentinel and instruction indices inside
\* and beyond the programs.
StartChoices == {-1, 0, 1}

\* ----------------------------------------------------------------- opcodes
kReturn == "kReturn"
kFilter == "kFilter"
kWrap == "kWrap"
kAggregate == "kAggregate"
kReadAggregate == "kReadAggregate"
kPlus_BIGINT == "kPlus_BIGINT"
kLT_BIGINT == "kLT_BIGINT"

\* The opcodes a program body is built from: those waveBaseKernel dispatches.
BodyOpCodes ==
  {kFilter, kWrap, kAggregate, kReadAggregate, kPlus_BIGINT, kLT_BIGINT}
OpCodes == BodyOpCodes \cup {kReturn}

\* ----------------------------------------------------------------- helpers
At(a, i) == a[i + 1]
Size(a) == Len(a)

\* A nullable pointer to an array.
NullPtr == [null |-> TRUE, a |-> <<>>]
Ptr(a) == [null |-> FALSE, a |-> a]

\* Sequences over S of length exactly n.
SeqsOfLen(S, n) == [1..n -> S]

\* The permutations of 0..n-1, as sequences.
Perms(n) == {f \in SeqsOfLen(0..(n - 1), n) :
               \A i, j \in 1..n : f[i] = f[j] => i = j}

\* ------------------------------------------------------------------- state
VARIABLES
  entry,            \* the entry point the host runs
  hpc,              \* position of the host in it
  ndebug,           \* whether the build defines NDEBUG: "undetermined" until
                    \* the first failing assert is evaluated
  FLAGS_kernel_gdb, \* the debug flag
  alias,            \* TRUE when call() is given an alias stream
  numBlocks,        \* call()'s numBlocks
  paramsProgramIdx, \* params.programIdx: block -> program index
  paramsPrograms,   \* params.programs: instruction arrays, Return-terminated
  paramsStartPC,    \* params.startPC, written by callOne
  entryStartPC,     \* the value of params.startPC when call() was entered
  blocksPerExe,     \* callOne local
  programs,         \* callOne local: the reconstructed opcode lists
  initialStartPC,   \* callOne local
  programIdx,       \* callOne local: index of the outer loop
  pc,               \* callOne local: index of the inner loop
  queue,            \* device: stream -> FIFO of launched kernels
  fusedDone,        \* device: blocks of the running fused kernel that returned
  applied,          \* device: block -> steps <<index, opcode>> applied to it
  log,              \* host-visible events: launches, error checks, waits
  op,               \* setupAggregation: the AggregationControl
  kernelGiven,      \* setupAggregation: a CompiledKernel is supplied
  aggHead,          \* device memory at op.head: the DeviceAggregation fields
  aggBytes,         \* device memory following the DeviceAggregation header
  rehashCalls,      \* device: calls of GpuHashTable::rehash
  sizeArg,          \* instructionSharedMemory: opcode of the instruction
  sizeResult,       \* instructionSharedMemory: value returned
  dispatched,       \* callOne: the switch evaluations, in order
  instrReads,       \* callOne: the instruction reads of the reconstruction
  blockRuns         \* device: block -> its runs of the fused interpreter

callInputs ==
  <<FLAGS_kernel_gdb, alias, numBlocks, paramsProgramIdx, paramsPrograms,
    entryStartPC>>
callLocals == <<blocksPerExe, programs, initialStartPC, programIdx, pc>>
deviceVars == <<queue, fusedDone, applied>>
aggVars == <<op, kernelGiven, aggHead, aggBytes, rehashCalls>>
sizeVars == <<sizeArg, sizeResult>>
traceVars == <<dispatched, instrReads, blockRuns>>
vars ==
  <<entry, hpc, ndebug, callInputs, paramsStartPC, callLocals, deviceVars,
    log, aggVars, sizeVars, traceVars>>

Streams == {"self", "alias"}

\* ------------------------------------------------------------------ events
LaunchEvent(k, blocks, threads, stream, p, base, startPC, ok) ==
  [ev |-> "launch", kernel |-> k, blocks |-> blocks, threads |-> threads,
   stream |-> stream, pc |-> p, base |-> base, startPC |-> startPC,
   ok |-> ok]
CheckEvent(ok) ==
  [ev |-> "check", kernel |-> "", blocks |-> 0, threads |-> 0,
   stream |-> "", pc |-> 0, base |-> 0, startPC |-> NullPtr, ok |-> ok]
WaitEvent(stream) ==
  [ev |-> "wait", kernel |-> "", blocks |-> 0, threads |-> 0,
   stream |-> stream, pc |-> 0, base |-> 0, startPC |-> NullPtr, ok |-> TRUE]

\* One evaluation of the switch of callOne (line 156): the program, the
\* index and the opcode switched on.
Dispatch(program, p, opCode) ==
  [program |-> program, pc |-> p, opCode |-> opCode]

\* A kernel in a stream's queue, with the arguments of its launch; params
\* is passed by value, so the kernel holds params.startPC as it was at the
\* launch.
Kernel(k, blocks, threads, p, base, startPC) ==
  [kernel |-> k, blocks |-> blocks, threads |-> threads, pc |-> p,
   base |-> base, startPC |-> startPC]

\* --------------------------------------------------------- device constants
\* Threads per block and threads per warp (CudaUtil.cuh, outside the file).
kBlockSize == 256
kWarpThreads == 32
\* sizeof(int32_t).
SizeofInt32 == 4
\* The cap on the number of blocks of a rehash launch.
kMaxRehashBlocks == 640

\* ------------------------------------------------------ the fused interpreter
\* PROGRAM_PREAMBLE (WaveCore.cuh, outside the file): the index in its
\* program's instruction array at which `instruction` points when the
\* preamble is done: 0 without a resume array, else the resume point of the
\* block's program.
PreambleStart(startPC, programIndex) ==
  IF startPC.null THEN 0 ELSE At(startPC.a, programIndex)

\* The for (;;) loop of waveBaseKernel run by one block on its program's
\* instruction array, from the instruction the preamble points at (index
\* ip).  Returns the steps applied, the number of times the epilogue ran
\* and the instruction indices read.
\* The loop leaving only at a Return that ends the instruction array.
RECURSIVE waveBaseLoop_lastReturn(_, _, _)
waveBaseLoop_lastReturn(instructions, ip, acc) ==
  LET opCode == At(instructions, ip)
      read == [acc EXCEPT !.reads = Append(@, ip)]
  IN  IF opCode = kReturn /\ ip + 1 >= Size(instructions)
        THEN [read EXCEPT !.epilogues = @ + 1]
        ELSE waveBaseLoop_lastReturn(
               instructions, ip + 1,
               IF opCode # kReturn
                 THEN [read EXCEPT !.steps = Append(@, <<ip, opCode>>)]
                 ELSE read)

RECURSIVE waveBaseLoop(_, _, _)
waveBaseLoop(instructions, ip, acc) ==
  LET opCode == At(instructions, ip)
      read == [acc EXCEPT !.reads = Append(@, ip)]
  IN  IF opCode = kReturn
        THEN [read EXCEPT !.epilogues = @ + 1]
        ELSE waveBaseLoop(
               instructions, ip + 1,
               IF opCode \in {kFilter, kWrap, kAggregate, kReadAggregate,
                              kPlus_BIGINT, kLT_BIGINT}
                 THEN [read EXCEPT !.steps = Append(@, <<ip, opCode>>)]
                 ELSE read)

\* Lines 65-97 run by one block whose preamble leaves `instruction` at
\* index start of the block's instruction array.
waveBaseKernel(instructions, start) ==
  waveBaseLoop(instructions, start, [steps |-> <<>>, epilogues |-> 0,
                                     reads |-> <<>>])

\* The single-opcode kernels that are only declared in the file (lines 47,
\* 49, 63): each applies the one instruction of its opcode at its pc.
DeclaredKernelOpCode(k) ==
  CASE k = "oneFilter" -> kFilter
    [] k = "oneReadAggregate" -> kReadAggregate
    [] k = "onePlusBigint" -> kPlus_BIGINT

\* The instruction a single-opcode kernel applies at its pc: oneAggregate
\* (lines 41-45) runs aggregateKernel and oneLt (lines 50-61) the binary
\* operator <, as the fused cases kAggregate and kLT_BIGINT do.
KernelOpCode(k) ==
  CASE k = "oneAggregate" -> kAggregate
    [] k = "oneLt<int64_t>" -> kLT_BIGINT
    [] OTHER -> DeclaredKernelOpCode(k)

\* ------------------------------------------------------- instruction sizing
\* sizeof(WaveShared) is fixed by WaveCore.cuh, outside the file.
SizeofWaveShared == 64

\* Lines 100-106 with the Filter case taken for every opcode but Return.
instructionSharedMemory_allButReturn(opCode) ==
  IF opCode # kReturn
    THEN SizeofWaveShared + (2 + (kBlockSize \div kWarpThreads)) * SizeofInt32
    ELSE SizeofWaveShared

instructionSharedMemory(opCode) ==
  IF opCode = kFilter
    THEN SizeofWaveShared + (2 + (kBlockSize \div kWarpThreads)) * SizeofInt32
    ELSE SizeofWaveShared

\* -------------------------------------------------- callOne: pure fragments
\* pc < program.size() with pc an int32_t and size() a size_t: pc is
\* converted to unsigned, so a negative pc compares above every size.
LessThanSize(p, size) == p >= 0 /\ p < size

\* The values a read past the end of an array may deliver.
StrayValues == {-1, 0, 1}

\* Line 125: auto first = params.programIdx[0], executed whatever numBlocks
\* is.  On an array of no elements the read is past the end: it faults,
\* or it delivers whatever the memory holds.
ReadFirst(pidx) ==
  IF Size(pidx) > 0
    THEN {[fault |-> FALSE, value |-> At(pidx, 0)]}
    ELSE {[fault |-> TRUE, value |-> 0]} \cup
           {[fault |-> FALSE, value |-> v] : v \in StrayValues}

\* Lines 126-130 without the break of line 128.
scanBlocksPerExe_noBreak(pidx, nBlocks, first, n) == nBlocks

\* Lines 126-130: the number of leading blocks whose program is first.
RECURSIVE scanBlocksPerExe(_, _, _, _)
scanBlocksPerExe(pidx, nBlocks, first, n) ==
  IF n < nBlocks /\ At(pidx, n) = first
    THEN scanBlocksPerExe(pidx, nBlocks, first, n + 1)
    ELSE n

\* Lines 136-138: the opcodes of an instruction array before its Return.
RECURSIVE collectOpCodes(_, _, _)
collectOpCodes(instructions, p, acc) ==
  IF At(instructions, p) # kReturn
    THEN collectOpCodes(instructions, p + 1, Append(acc, At(instructions, p)))
    ELSE acc

\* Lines 131-139: one opcode list per group of blocksPerExe blocks; the
\* list of the n-th group is read from params.programs[n].
RECURSIVE reconstructPrograms(_, _, _, _, _)
reconstructPrograms(i, nBlocks, perExe, pprograms, acc) ==
  IF i < nBlocks
    THEN reconstructPrograms(
           i + perExe, nBlocks, perExe, pprograms,
           Append(acc, collectOpCodes(At(pprograms, Len(acc)), 0, <<>>)))
    ELSE acc

\* Lines 136-138: the indices at which the loop reads an instruction array;
\* the read that finds the Return is the last.
RECURSIVE collectReads(_, _, _)
collectReads(instructions, p, acc) ==
  IF At(instructions, p) # kReturn
    THEN collectReads(instructions, p + 1, Append(acc, p))
    ELSE Append(acc, p)

\* Lines 131-139: for each group, the entry of params.programs the
\* reconstruction reads and the indices it reads it at.
RECURSIVE reconstructReads(_, _, _, _, _)
reconstructReads(i, nBlocks, perExe, pprograms, acc) ==
  IF i < nBlocks
    THEN reconstructReads(
           i + perExe, nBlocks, perExe, pprograms,
           Append(acc, [array |-> Len(acc),
                        indices |->
                          collectReads(At(pprograms, Len(acc)), 0, <<>>)]))
    ELSE acc

\* Line 143 without the scaling by blocksPerExe.
ProgramBase_unscaled(pi, perExe) == pi

\* Line 143.
ProgramBase(pi, perExe) == pi * perExe

\* Lines 145-148 reading the resume entry of program 0 for every program.
StartOf_first(startPC, pi) == IF startPC.null THEN 0 ELSE At(startPC.a, 0)

\* Lines 145-148: the start index of program pi.
StartOf(startPC, pi) == IF startPC.null THEN 0 ELSE At(startPC.a, pi)

\* Line 149: start == ~0.
IsNoContinue(start) == start = -1

\* Lines 156-175: the kernel launched for an opcode, "" for the default case.
OneKernelFor(opCode) ==
  CASE opCode = kFilter -> "oneFilter"
    [] opCode = kAggregate -> "oneAggregate"
    [] opCode = kReadAggregate -> "oneReadAggregate"
    [] opCode = kPlus_BIGINT -> "onePlusBigint"
    [] opCode = kLT_BIGINT -> "oneLt<int64_t>"
    [] OTHER -> ""

\* Lines 154-160 without the ++pc of the Filter case.
NextPc_single(opCode, p) == p + 1

\* Lines 154-160: the value of pc when the loop condition is next tested.
NextPc(opCode, p) == IF opCode = kFilter THEN (p + 1) + 1 ELSE p + 1

\* The stream choice ignoring the alias.
CallStream_self == "self"

\* The stream a launch of call/callOne goes to (lines 114, 196).
CallStream == IF alias THEN "alias" ELSE "self"

\* ------------------------------------------------------------ initial states
\* What an instruction array holds after its first Return: nothing, or one
\* more instruction.
Tails == {<<>>, <<kReturn>>}

\* The instruction arrays of at most n instructions besides the first
\* Return: a body, the first Return and a tail.
InstructionArrays(n) ==
  UNION {{Append(body, kReturn) \o tail :
            body \in UNION {SeqsOfLen(BodyOpCodes, k) :
                              k \in 0..(n - Len(tail))}} :
           tail \in {t \in Tails : Len(t) <= n}}

\* The instruction arrays of g programs that hold at most n instructions
\* in total besides their first Returns.
RECURSIVE ProgramArraysWithin(_, _)
ProgramArraysWithin(g, n) ==
  IF g = 0
    THEN {<<>>}
    ELSE UNION {{<<a>> \o rest :
                   rest \in ProgramArraysWithin(g - 1, n - (Len(a) - 1))} :
                a \in InstructionArrays(n)}

\* The instruction arrays of the g programs of a call.
ProgramArrays(g) == ProgramArraysWithin(g, MaxInstr)

\* programIdx for g programs on perExe consecutive blocks each; the program
\* of the n-th block range is perm[n].
ProgramIdxArray(g, perExe, perm) ==
  [b \in 1..(g * perExe) |-> perm[((b - 1) \div perExe) + 1]]

NoOp == [oldBuckets |-> FALSE, numOldBuckets |-> 0, rowSize |-> 0]
NoHead == [rowSize |-> 0, singleRow |-> 0, table |-> "null"]

InitDevice ==
  /\ queue = [s \in Streams |-> <<>>]
  /\ fusedDone = {}
  /\ log = <<>>
  /\ ndebug = "undetermined"
  /\ dispatched = <<>>
  /\ instrReads = <<>>

InitCallLocals ==
  /\ blocksPerExe = 0
  /\ programs = <<>>
  /\ initialStartPC = NullPtr
  /\ programIdx = 0
  /\ pc = 0

InitNoCall ==
  /\ FLAGS_kernel_gdb = FALSE
  /\ alias = FALSE
  /\ numBlocks = 0
  /\ paramsProgramIdx = <<>>
  /\ paramsPrograms = <<>>
  /\ paramsStartPC = NullPtr
  /\ entryStartPC = NullPtr
  /\ applied = <<>>
  /\ blockRuns = <<>>
  /\ InitCallLocals

InitNoAgg ==
  /\ op = NoOp
  /\ kernelGiven = FALSE
  /\ aggHead = NoHead
  /\ aggBytes = <<>>
  /\ rehashCalls = <<>>

InitNoSize ==
  /\ sizeArg = kReturn
  /\ sizeResult = 0

\* The resume arrays for the given instruction arrays whose entries are
\* instruction indices up to the first Return of their program.
ResumePointsWithin(arrays) ==
  {a \in SeqsOfLen(StartChoices, Len(arrays)) :
     \A n \in 1..Len(arrays) :
       \E i \in 1..Len(arrays[n]) :
         /\ a[n] = i - 1
         /\ \A j \in 1..(i - 1) : arrays[n][j] # kReturn}

\* call(alias, numBlocks, sharedSize, params) is entered.  The programs
\* occupy equal-sized contiguous block ranges and the resume array, if
\* any, has one entry per program.  Calls with more than one block per
\* program have block range n hold program n and use the stream's own
\* queue; calls with one block per program have any assignment and either
\* stream.  The stepping driver is entered with any
\* entries; the fused kernel, whose preamble takes an entry as an index
\* without testing it, with indices up to the Return of their program.
InitCall ==
  /\ entry = "call"
  /\ hpc = "call"
  /\ FLAGS_kernel_gdb \in BOOLEAN
  /\ alias \in BOOLEAN
  /\ \E g \in ProgramCounts, perExe \in BlocksPerProgram :
       /\ g = 0 => perExe = 1
       /\ perExe > 1 => ~alias
       /\ numBlocks = g * perExe
       /\ \E perm \in Perms(g) :
            /\ perExe > 1 => perm = [i \in 1..g |-> i - 1]
            /\ paramsProgramIdx = ProgramIdxArray(g, perExe, perm)
       /\ paramsPrograms \in ProgramArrays(g)
       /\ entryStartPC \in
            {NullPtr} \cup
              {Ptr(a) : a \in IF FLAGS_kernel_gdb
                                THEN SeqsOfLen(StartChoices, g)
                                ELSE ResumePointsWithin(paramsPrograms)}
  /\ paramsStartPC = entryStartPC
  /\ applied = [b \in 0..(numBlocks - 1) |-> <<>>]
  /\ blockRuns = [b \in 0..(numBlocks - 1) |-> <<>>]
  /\ InitCallLocals
  /\ InitDevice
  /\ InitNoAgg
  /\ InitNoSize

\* --------------------------------------------------------------- the device
Enqueue(q, s, k) == [q EXCEPT ![s] = Append(@, k)]
Dequeue(q, s) == [q EXCEPT ![s] = Tail(@)]

\* PROGRAM_PREAMBLE(base) ... PROGRAM_EPILOGUE() of a single-opcode kernel
\* (lines 41-45, 50-61): block k.base + blockIdx.x applies instruction[pc],
\* the instruction k.pc places after the one the preamble points at.  The
\* index may lie outside the instruction array; what such a step does to
\* the buffers is undefined.
oneKernel(k, hist) ==
  [b \in DOMAIN hist |->
     IF b \in k.base..(k.base + k.blocks - 1)
       THEN Append(hist[b],
                   <<PreambleStart(k.startPC, At(paramsProgramIdx, b)) + k.pc,
                     KernelOpCode(k.kernel)>>)
       ELSE hist[b]]

\* The kernel at the head of stream s is a single-opcode kernel and runs.
DeviceOneKernel(s) ==
  /\ queue[s] # <<>>
  /\ Head(queue[s]).kernel \notin {"waveBaseKernel", "setupAggregationKernel"}
  /\ applied' = oneKernel(Head(queue[s]), applied)
  /\ queue' = Dequeue(queue, s)
  /\ UNCHANGED <<entry, hpc, ndebug, callInputs, paramsStartPC, callLocals,
                 fusedDone, log, aggVars, sizeVars, traceVars>>

\* The kernel at the head of stream s is the fused kernel; block b of its
\* grid runs its program to the Return.  The kernel has completed when
\* every block has.
DeviceFusedBlock(s, b) ==
  /\ queue[s] # <<>>
  /\ Head(queue[s]).kernel = "waveBaseKernel"
  /\ b \in 0..(Head(queue[s]).blocks - 1)
  /\ b \notin fusedDone
  /\ LET programIndex == At(paramsProgramIdx, b)
         run == waveBaseKernel(
                  At(paramsPrograms, programIndex),
                  PreambleStart(Head(queue[s]).startPC, programIndex))
     IN  /\ applied' = [applied EXCEPT ![b] = @ \o run.steps]
         /\ blockRuns' = [blockRuns EXCEPT ![b] = Append(@, run)]
  /\ IF fusedDone \cup {b} = 0..(Head(queue[s]).blocks - 1)
       THEN queue' = Dequeue(queue, s) /\ fusedDone' = {}
       ELSE queue' = queue /\ fusedDone' = fusedDone \cup {b}
  /\ UNCHANGED <<entry, hpc, ndebug, callInputs, paramsStartPC, callLocals,
                 log, aggVars, sizeVars, dispatched, instrReads>>

\* ------------------------------------------------------ call and callOne
\* A launch succeeds or fails; a grid of no blocks is always rejected.
LaunchOutcomes(blocks) == IF blocks > 0 THEN {TRUE, FALSE} ELSE {FALSE}

\* Lines 186-197.
Call ==
  /\ hpc = "call"
  /\ IF FLAGS_kernel_gdb
       THEN /\ hpc' = "callOne"
            /\ UNCHANGED <<queue, log>>
       ELSE \E ok \in LaunchOutcomes(numBlocks) :
              /\ log' = log \o
                   <<LaunchEvent("waveBaseKernel", numBlocks, kBlockSize,
                                 CallStream, 0, 0, paramsStartPC, ok),
                     CheckEvent(ok)>>
              /\ queue' =
                   IF ok
                     THEN Enqueue(queue, CallStream,
                                  Kernel("waveBaseKernel", numBlocks,
                                         kBlockSize, 0, 0, paramsStartPC))
                     ELSE queue
              /\ hpc' = IF ok THEN "returned" ELSE "fatal"
  /\ UNCHANGED <<entry, ndebug, callInputs, paramsStartPC, callLocals,
                 fusedDone, applied, aggVars, sizeVars, traceVars>>

\* Lines 124-140.  The read of line 125 comes first; when it faults the
\* process ends there.
CallOneSetup ==
  /\ hpc = "callOne"
  /\ \E first \in ReadFirst(paramsProgramIdx) :
       IF first.fault
         THEN /\ hpc' = "crashed"
              /\ UNCHANGED <<callLocals, instrReads>>
         ELSE /\ LET perExe == scanBlocksPerExe(paramsProgramIdx, numBlocks,
                                                first.value, 0)
                 IN  /\ blocksPerExe' = perExe
                     /\ programs' =
                          reconstructPrograms(0, numBlocks, perExe,
                                              paramsPrograms, <<>>)
                     /\ instrReads' =
                          reconstructReads(0, numBlocks, perExe,
                                           paramsPrograms, <<>>)
              /\ initialStartPC' = paramsStartPC
              /\ programIdx' = 0
              /\ hpc' = "programLoop"
              /\ UNCHANGED pc
  /\ UNCHANGED <<entry, ndebug, callInputs, paramsStartPC, deviceVars,
                 log, aggVars, sizeVars, dispatched, blockRuns>>

\* Lines 141-152 without line 144: the start is read through params.startPC
\* as the previous iteration left it.
ProgramLoop_noReset ==
  /\ hpc = "programLoop"
  /\ IF programIdx < Size(programs)
       THEN LET start == StartOf(paramsStartPC, programIdx)
            IN  IF IsNoContinue(start)
                  THEN /\ programIdx' = programIdx + 1
                       /\ UNCHANGED <<hpc, pc>>
                  ELSE /\ pc' = start
                       /\ hpc' = "instr"
                       /\ UNCHANGED programIdx
       ELSE /\ hpc' = "callWait"
            /\ UNCHANGED <<programIdx, pc>>
  /\ UNCHANGED <<entry, ndebug, callInputs, paramsStartPC, blocksPerExe,
                 programs, initialStartPC, deviceVars, log, aggVars, sizeVars,
                 traceVars>>

\* Lines 141-152: the head of the outer loop, up to the test of start.
ProgramLoop ==
  /\ hpc = "programLoop"
  /\ IF programIdx < Size(programs)
       THEN /\ paramsStartPC' = initialStartPC
            /\ LET start == StartOf(initialStartPC, programIdx)
               IN  IF IsNoContinue(start)
                     THEN /\ programIdx' = programIdx + 1
                          /\ UNCHANGED <<hpc, pc>>
                     ELSE /\ pc' = start
                          /\ hpc' = "instr"
                          /\ UNCHANGED programIdx
       ELSE /\ hpc' = "callWait"
            /\ UNCHANGED <<paramsStartPC, programIdx, pc>>
  /\ UNCHANGED <<entry, ndebug, callInputs, blocksPerExe, programs,
                 initialStartPC, deviceVars, log, aggVars, sizeVars, traceVars>>

\* Lines 154-172 with CALL_ONE (109-117): one iteration of the inner loop
\* on an opcode that has a single-opcode kernel.
LaunchOne ==
  /\ hpc = "instr"
  /\ LessThanSize(pc, Size(At(programs, programIdx)))
  /\ LET opCode == At(At(programs, programIdx), pc)
         k == OneKernelFor(opCode)
         base == ProgramBase(programIdx, blocksPerExe)
     IN  /\ k # ""
         /\ \E ok \in LaunchOutcomes(blocksPerExe) :
              /\ log' = log \o
                   <<LaunchEvent(k, blocksPerExe, kBlockSize, CallStream, pc,
                                 base, paramsStartPC, ok),
                     CheckEvent(ok)>>
              /\ queue' =
                   IF ok
                     THEN Enqueue(queue, CallStream,
                                  Kernel(k, blocksPerExe, kBlockSize, pc,
                                         base, paramsStartPC))
                     ELSE queue
              /\ hpc' = IF ok THEN "instr" ELSE "fatal"
              /\ pc' = IF ok THEN NextPc(opCode, pc) ELSE pc
         /\ dispatched' = Append(dispatched, Dispatch(programIdx, pc, opCode))
  /\ UNCHANGED <<entry, ndebug, callInputs, paramsStartPC, blocksPerExe,
                 programs, initialStartPC, programIdx, fusedDone, applied,
                 aggVars, sizeVars, instrReads, blockRuns>>

\* Lines 173-174: the default case, assert(false).  With NDEBUG defined the
\* assert is empty and the loop goes on; otherwise the process aborts.
AssertFalse ==
  /\ hpc = "instr"
  /\ LessThanSize(pc, Size(At(programs, programIdx)))
  /\ LET opCode == At(At(programs, programIdx), pc)
     IN  /\ OneKernelFor(opCode) = ""
         /\ \E defined \in {"defined", "undefined"} :
              /\ ndebug \in {"undetermined", defined}
              /\ ndebug' = defined
              /\ IF defined = "defined"
                   THEN pc' = NextPc(opCode, pc) /\ hpc' = hpc
                   ELSE pc' = pc /\ hpc' = "aborted"
         /\ dispatched' = Append(dispatched, Dispatch(programIdx, pc, opCode))
  /\ UNCHANGED <<entry, callInputs, paramsStartPC, blocksPerExe, programs,
                 initialStartPC, programIdx, deviceVars, log, aggVars,
                 sizeVars, instrReads, blockRuns>>

\* Lines 154, 178 without the store of line 177.
ProgramEnd_noStore ==
  /\ hpc = "instr"
  /\ ~LessThanSize(pc, Size(At(programs, programIdx)))
  /\ programIdx' = programIdx + 1
  /\ hpc' = "programLoop"
  /\ UNCHANGED <<entry, ndebug, callInputs, paramsStartPC, blocksPerExe,
                 programs, initialStartPC, pc, deviceVars, log, aggVars,
                 sizeVars, traceVars>>

\* Lines 154, 177-178: the inner loop ends.
ProgramEnd ==
  /\ hpc = "instr"
  /\ ~LessThanSize(pc, Size(At(programs, programIdx)))
  /\ paramsStartPC' = NullPtr
  /\ programIdx' = programIdx + 1
  /\ hpc' = "programLoop"
  /\ UNCHANGED <<entry, ndebug, callInputs, blocksPerExe, programs,
                 initialStartPC, pc, deviceVars, log, aggVars, sizeVars,
                 traceVars>>

\* Lines 188-189: (alias ? alias : this)->wait() and the return.
CallWait ==
  /\ hpc = "callWait"
  /\ queue[CallStream] = <<>>
  /\ log' = Append(log, WaitEvent(CallStream))
  /\ hpc' = "returned"
  /\ UNCHANGED <<entry, ndebug, callInputs, paramsStartPC, callLocals,
                 deviceVars, aggVars, sizeVars, traceVars>>

Next ==
  \/ Call
  \/ CallOneSetup
  \/ ProgramLoop
  \/ LaunchOne
  \/ AssertFalse
  \/ ProgramEnd
  \/ CallWait
  \/ \E s \in Streams : DeviceOneKernel(s)
  \/ \E s \in Streams : \E b \in 0..(numBlocks - 1) : DeviceFusedBlock(s, b)

Spec == InitCall /\ [][Next]_vars

\* ------------------------------------------------------- aggregation setup
\* Largest row size, and largest old bucket count next to the boundary
\* values of the block-count computation.
MaxRowSize == 3
MaxOldBuckets == 3

\* sizeof(DeviceAggregation) is fixed by Aggregate.cuh, outside the file.
SizeofDeviceAggregation == 24
\* Addresses count bytes from op.head.  The bytes of the destination buffer
\* that follow the header:
RowAddrs ==
  SizeofDeviceAggregation..(SizeofDeviceAggregation + MaxRowSize - 1)
Bytes == {0, 255}

OldBucketChoices ==
  (1..MaxOldBuckets) \cup
    {kBlockSize - 1, kBlockSize, kBlockSize + 1, 2 * kBlockSize,
     kMaxRehashBlocks * kBlockSize - kBlockSize,
     kMaxRehashBlocks * kBlockSize - 1, kMaxRehashBlocks * kBlockSize,
     kMaxRehashBlocks * kBlockSize + 1, 2 * kMaxRehashBlocks * kBlockSize}

\* roundUp(value, factor) of CudaUtil.cuh.
roundUp(value, factor) == ((value + (factor - 1)) \div factor) * factor

Min(a, b) == IF a < b THEN a ELSE b

\* Lines 226-227 dividing without rounding up first.
SetupNumBlocks_floor(o) ==
  IF o.oldBuckets
    THEN Min(o.numOldBuckets \div kBlockSize, kMaxRehashBlocks)
    ELSE 1

\* Lines 221-228: the grid of the launch.
SetupNumThreads(o) == IF o.oldBuckets THEN kBlockSize ELSE 1
SetupNumBlocks(o) ==
  IF o.oldBuckets
    THEN Min(roundUp(o.numOldBuckets, kBlockSize) \div kBlockSize,
             kMaxRehashBlocks)
    ELSE 1

\* memset(addr, 0, n) on the bytes that follow the header.
Memset0(mem, addr, n) ==
  [a \in DOMAIN mem |-> IF a \in addr..(addr + n - 1) THEN 0 ELSE mem[a]]

\* Lines 211-213 with the accumulator placed on the header itself.
ConstructedHead_atHead(o) ==
  [rowSize |-> o.rowSize, singleRow |-> 0, table |-> "null"]

\* Lines 211-213: the DeviceAggregation constructed at op.head.
ConstructedHead(o) ==
  [rowSize |-> o.rowSize,
   singleRow |-> 1 * SizeofDeviceAggregation,
   table |-> "null"]

\* Line 214.
ClearedRow(o, head, mem) == Memset0(mem, head.singleRow, o.rowSize)

\* Lines 203-209: the rehash the kernel's threads perform on head->table.
RehashCall(o, head, k) ==
  [table |-> head.table, oldBuckets |-> o.oldBuckets,
   numOldBuckets |-> o.numOldBuckets, threads |-> k.blocks * k.threads]

InitAgg ==
  /\ entry = "setupAggregation"
  /\ hpc = "setupAggregation"
  /\ kernelGiven \in BOOLEAN
  /\ \E old \in BOOLEAN :
       IF old
         THEN \* rehash: op.head is a DeviceAggregation set up earlier
              /\ op \in {[oldBuckets |-> TRUE, numOldBuckets |-> n,
                          rowSize |-> r] :
                           n \in OldBucketChoices, r \in {0, MaxRowSize}}
              /\ aggHead \in
                   {[rowSize |-> r,
                     singleRow |-> SizeofDeviceAggregation,
                     table |-> "table"] : r \in 0..MaxRowSize}
              /\ aggBytes \in
                   {m \in [RowAddrs -> Bytes] :
                      \A a \in RowAddrs :
                        a >= aggHead.singleRow + aggHead.rowSize
                          => m[a] = 0}
         ELSE \* initialize: the destination holds anything
              /\ op \in {[oldBuckets |-> FALSE, numOldBuckets |-> 0,
                          rowSize |-> r] : r \in 0..MaxRowSize}
              /\ aggHead \in
                   {[rowSize |-> r, singleRow |-> p, table |-> "null"] :
                      r \in {0, MaxRowSize},
                      p \in {0, SizeofDeviceAggregation}}
              /\ aggBytes \in [RowAddrs -> Bytes]
  /\ rehashCalls = <<>>
  /\ InitDevice
  /\ InitNoCall
  /\ InitNoSize

InitSize ==
  /\ entry = "instructionSharedMemory"
  /\ hpc = "instructionSharedMemory"
  /\ sizeArg \in OpCodes
  /\ sizeResult = 0
  /\ InitDevice
  /\ InitNoCall
  /\ InitNoAgg

\* Lines 217-234: setupAggregation up to the launch.  Neither path checks
\* the outcome of the launch here.
SetupAggregation ==
  /\ hpc = "setupAggregation"
  /\ \E ok \in LaunchOutcomes(SetupNumBlocks(op)) :
       /\ log' = Append(log,
            LaunchEvent(IF kernelGiven THEN "CompiledKernel::launch"
                                       ELSE "setupAggregationKernel",
                        SetupNumBlocks(op), SetupNumThreads(op), "self", 0,
                        0, NullPtr, ok))
       /\ queue' =
            IF ok
              THEN Enqueue(queue, "self",
                           Kernel("setupAggregationKernel",
                                  SetupNumBlocks(op), SetupNumThreads(op),
                                  0, 0, NullPtr))
              ELSE queue
  /\ hpc' = "setupWait"
  /\ UNCHANGED <<entry, ndebug, callInputs, paramsStartPC, callLocals,
                 fusedDone, applied, aggVars, sizeVars, traceVars>>

\* Line 235 returning without the wait.
SetupWait_noWait ==
  /\ hpc = "setupWait"
  /\ log' = log
  /\ hpc' = "returned"
  /\ UNCHANGED <<entry, ndebug, callInputs, paramsStartPC, callLocals,
                 deviceVars, aggVars, sizeVars, traceVars>>

\* Line 235: wait() and the return.
SetupWait ==
  /\ hpc = "setupWait"
  /\ queue["self"] = <<>>
  /\ log' = Append(log, WaitEvent("self"))
  /\ hpc' = "returned"
  /\ UNCHANGED <<entry, ndebug, callInputs, paramsStartPC, callLocals,
                 deviceVars, aggVars, sizeVars, traceVars>>

\* Lines 202-215 without the return of line 209: after the rehash the
\* kernel goes on to construct the DeviceAggregation.
DeviceSetupKernel_noReturn(s) ==
  /\ queue[s] # <<>>
  /\ Head(queue[s]).kernel = "setupAggregationKernel"
  /\ IF op.oldBuckets
       THEN rehashCalls' =
              Append(rehashCalls, RehashCall(op, aggHead, Head(queue[s])))
       ELSE UNCHANGED rehashCalls
  /\ aggHead' = ConstructedHead(op)
  /\ aggBytes' = ClearedRow(op, ConstructedHead(op), aggBytes)
  /\ queue' = Dequeue(queue, s)
  /\ UNCHANGED <<entry, hpc, ndebug, callInputs, paramsStartPC, callLocals,
                 fusedDone, applied, log, op, kernelGiven, sizeVars,
                 traceVars>>

\* Lines 202-215: setupAggregationKernel runs on the device.
DeviceSetupKernel(s) ==
  /\ queue[s] # <<>>
  /\ Head(queue[s]).kernel = "setupAggregationKernel"
  /\ IF op.oldBuckets
       THEN /\ rehashCalls' =
                 Append(rehashCalls, RehashCall(op, aggHead, Head(queue[s])))
            /\ UNCHANGED <<aggHead, aggBytes>>
       ELSE /\ aggHead' = ConstructedHead(op)
            /\ aggBytes' = ClearedRow(op, ConstructedHead(op), aggBytes)
            /\ UNCHANGED rehashCalls
  /\ queue' = Dequeue(queue, s)
  /\ UNCHANGED <<entry, hpc, ndebug, callInputs, paramsStartPC, callLocals,
                 fusedDone, applied, log, op, kernelGiven, sizeVars, traceVars>>

\* Lines 99-107.
InstructionSharedMemory ==
  /\ hpc = "instructionSharedMemory"
  /\ sizeResult' = instructionSharedMemory(sizeArg)
  /\ hpc' = "returned"
  /\ UNCHANGED <<entry, ndebug, callInputs, paramsStartPC, callLocals,
                 deviceVars, log, aggVars, sizeArg, traceVars>>

InitSetup == InitAgg \/ InitSize

NextSetup ==
  \/ SetupAggregation
  \/ SetupWait
  \/ \E s \in Streams : DeviceSetupKernel(s)
  \/ InstructionSharedMemory

SpecSetup == InitSetup /\ [][NextSetup]_vars

\* ================================================================== claims
\* ------------------------------------------------- vocabulary of the claims
OneKernels ==
  {"oneFilter", "oneAggregate", "oneReadAggregate", "onePlusBigint",
   "oneLt<int64_t>"}
IsOneLaunch(e) == e.ev = "launch" /\ e.kernel \in OneKernels
IsFusedLaunch(e) == e.ev = "launch" /\ e.kernel = "waveBaseKernel"
OneLaunchIdx == {i \in 1..Len(log) : IsOneLaunch(log[i])}
FusedLaunchIdx == {i \in 1..Len(log) : IsFusedLaunch(log[i])}
WaitIdx == {i \in 1..Len(log) : log[i].ev = "wait"}

\* The single-opcode launches of the log with the given base, in order, as
\* pairs <<pc, kernel>>.
RECURSIVE LaunchesWithBase(_, _)
LaunchesWithBase(l, base) ==
  IF l = <<>>
    THEN <<>>
    ELSE LET e == Head(l)
             rest == LaunchesWithBase(Tail(l), base)
         IN  IF IsOneLaunch(e) /\ e.base = base
               THEN <<<<e.pc, e.kernel>>>> \o rest
               ELSE rest

\* The launches the stepping driver issues for an opcode list when it runs
\* from index p to the end without a failure, as pairs <<pc, kernel>>.
RECURSIVE StepLaunches(_, _)
StepLaunches(program, p) ==
  IF LessThanSize(p, Size(program))
    THEN LET opCode == At(program, p)
             rest == StepLaunches(program, NextPc(opCode, p))
         IN  IF OneKernelFor(opCode) # ""
               THEN <<<<p, OneKernelFor(opCode)>>>> \o rest
               ELSE rest
    ELSE <<>>

\* The elements of a sequence of pairs whose first component is at least k.
RECURSIVE FromIndex(_, _)
FromIndex(l, k) ==
  IF l = <<>>
    THEN <<>>
    ELSE IF Head(l)[1] >= k
           THEN <<Head(l)>> \o FromIndex(Tail(l), k)
           ELSE FromIndex(Tail(l), k)

\* The steps <<pc, opcode>> that a sequence of launches applies.
StepsOf(launches) ==
  [i \in 1..Len(launches) |->
     <<launches[i][1], KernelOpCode(launches[i][2])>>]

\* The position of the first Return of an instruction array (1-based).
FirstReturn(a) ==
  CHOOSE i \in 1..Len(a) :
    a[i] = kReturn /\ \A j \in 1..(i - 1) : a[j] # kReturn

\* The body of the n-th program of the call (0-based): its instructions
\* before the first Return.
BodyOf(n) ==
  SubSeq(At(paramsPrograms, n), 1, FirstReturn(At(paramsPrograms, n)) - 1)

\* Every opcode of every program has a single-opcode kernel.
AllOpCodesHaveKernels ==
  \A n \in 0..(Len(paramsPrograms) - 1) :
    \A i \in 1..Len(BodyOf(n)) : OneKernelFor(BodyOf(n)[i]) # ""

\* Block b is assigned the program of its range: programIdx = <<0,..,0,1,..>>.
IdentityLayout ==
  \A b \in 0..(numBlocks - 1) :
    At(paramsProgramIdx, b) = b \div (numBlocks \div Len(paramsPrograms))

\* The stepping driver has returned to call(), which has waited and returned.
SteppingReturned ==
  entry = "call" /\ FLAGS_kernel_gdb /\ hpc = "returned"

\* The stepping driver has ended: call() has returned, or an assert has
\* stopped the process.
SteppingEnded ==
  entry = "call" /\ FLAGS_kernel_gdb /\ hpc \in {"returned", "aborted"}

\* The base of the block range of the n-th program.
BaseOf(n) == n * (numBlocks \div Len(paramsPrograms))

\* The driver's launch log agrees with StepLaunches for every program that
\* is not skipped, in every run that returns.
StepLaunchesAgree ==
  SteppingReturned =>
    \A n \in 0..(Len(paramsPrograms) - 1) :
      LET start == StartOf(entryStartPC, n)
      IN  LaunchesWithBase(log, BaseOf(n)) =
            IF start = -1 THEN <<>>
            ELSE StepLaunches(collectOpCodes(At(paramsPrograms, n), 0, <<>>),
                              start)

\* The stream the claims say call() uses: alias's if given, else its own.
UsedStream == IF alias THEN "alias" ELSE "self"

\* The blocks of the n-th block range.
BlocksOf(n) ==
  {b \in 0..(numBlocks - 1) : b \div (numBlocks \div Len(paramsPrograms)) = n}

\* Program n of the call has the "no continuation" sentinel as resume point.
HasSentinel(n) == ~entryStartPC.null /\ At(entryStartPC.a, n) = -1

\* ----------------------------------------------------------------------- C1
\* C1: a program run by the stepping driver from instruction 0 (no resume
\* array) applies to each block the same sequence of <<index, opcode>>
\* steps as the fused interpreter applies to it, so both end in the same
\* buffers and lane status.  Stated for the stepping runs that have ended
\* without a launch failure, and for calls in which block range n holds
\* program n.
C1_SteppingMatchesFused ==
  (SteppingEnded /\ entryStartPC.null /\ IdentityLayout) =>
    \A b \in 0..(numBlocks - 1) :
      applied[b] =
        waveBaseKernel(At(paramsPrograms, At(paramsProgramIdx, b)), 0).steps

\* ----------------------------------------------------------------------- C2
\* C2: resuming at k issues no launch below k and exactly the launches at
\* indices >= k of the run of the same program from 0, in the same order,
\* and the steps they apply to the program's blocks are the steps at
\* indices >= k of that run, so that the run up to k followed by the
\* resumed run ends in the state of one run from 0.  Stated for programs
\* all of whose opcodes have a single-opcode kernel, for k from 0 to the
\* index of the Return, and for calls in which block range n holds
\* program n.
C2_ResumeIsContinuation ==
  (SteppingReturned /\ ~entryStartPC.null /\ AllOpCodesHaveKernels
     /\ IdentityLayout) =>
    \A n \in 0..(Len(paramsPrograms) - 1) :
      LET k == At(entryStartPC.a, n)
          fromK == FromIndex(StepLaunches(BodyOf(n), 0), k)
      IN  (k >= 0 /\ k <= Len(BodyOf(n))) =>
            /\ LaunchesWithBase(log, BaseOf(n)) = fromK
            /\ \A b \in BlocksOf(n) : applied[b] = StepsOf(fromK)

\* ----------------------------------------------------------------------- C3
\* The opcodes of the kernels of a sequence of launches <<pc, kernel>>.
KernelOpCodesOf(launches) ==
  [i \in 1..Len(launches) |-> KernelOpCode(launches[i][2])]

\* The opcodes of the steps applied to block b.
AppliedOpCodes(b) == [i \in 1..Len(applied[b]) |-> applied[b][i][2]]

\* C3: a program whose resume entry is the sentinel -1 gets no launch with
\* its base and its blocks' buffers stay as they were, at every moment of
\* the call; and when the call returns, every other program has been given
\* exactly the launches of its own run from its own resume point, and each
\* of them has run on every block of that program.
C3_SentinelProgramUntouched ==
  entry = "call" =>
    \A n \in 0..(Len(paramsPrograms) - 1) :
      HasSentinel(n) =>
        /\ \A i \in OneLaunchIdx : log[i].base # BaseOf(n)
        /\ \A b \in BlocksOf(n) : applied[b] = <<>>
        /\ SteppingReturned =>
             \A m \in 0..(Len(paramsPrograms) - 1) :
               ~HasSentinel(m) =>
                 /\ LaunchesWithBase(log, BaseOf(m)) =
                      StepLaunches(BodyOf(m), At(entryStartPC.a, m))
                 /\ \A b \in BlocksOf(m) :
                      AppliedOpCodes(b) =
                        KernelOpCodesOf(
                          StepLaunches(BodyOf(m), At(entryStartPC.a, m)))

\* Program 0 is skipped by the sentinel and program 1, on blocks 2 and 3,
\* has been run from its instruction 0.
C3_Witness ==
  /\ SteppingReturned
  /\ numBlocks = 4
  /\ entryStartPC = Ptr(<<-1, 0>>)
  /\ IdentityLayout
  /\ LaunchesWithBase(log, 2) # <<>>
  /\ applied[2] # <<>>
  /\ applied[2][1][1] = 0
  /\ applied[0] = <<>>

\* ----------------------------------------------------------------------- C4
\* C4: with the debug flag set call() issues no fused launch, and when it
\* returns its last act was the wait on the stream used (alias if given,
\* else its own), which has nothing pending; with the flag unset it issues
\* no single-opcode launch and never waits, and when it returns it has
\* issued exactly one fused launch, of numBlocks blocks on that stream.
C4_CallDispatch ==
  entry = "call" =>
    IF FLAGS_kernel_gdb
      THEN /\ FusedLaunchIdx = {}
           /\ hpc = "returned" =>
                /\ WaitIdx = {Len(log)}
                /\ log[Len(log)].stream = UsedStream
                /\ queue[UsedStream] = <<>>
      ELSE /\ OneLaunchIdx = {}
           /\ WaitIdx = {}
           /\ hpc = "returned" =>
                /\ Cardinality(FusedLaunchIdx) = 1
                /\ \A i \in FusedLaunchIdx :
                     /\ log[i].blocks = numBlocks
                     /\ log[i].stream = UsedStream
                     /\ log[i].ok

\* call() has returned on the fused path while the kernel it launched on
\* the alias stream has not completed.
C4_Witness ==
  /\ entry = "call"
  /\ ~FLAGS_kernel_gdb
  /\ alias
  /\ hpc = "returned"
  /\ queue["alias"] # <<>>
  /\ numBlocks = 2

\* ----------------------------------------------------------------------- C5
\* C5: between every two single-instruction launches of callOne the host
\* has waited for the device, so that no launch is issued while an earlier
\* launch of the call has not been waited for.
C5_HostWaitsBetweenLaunches ==
  entry = "call" =>
    \A i, j \in OneLaunchIdx :
      i < j => \E w \in WaitIdx : i < w /\ w < j

\* ----------------------------------------------------------------------- C6
\* C6: the single-instruction launches are issued in one total order: a
\* launch for program p comes before every launch for a later program, and
\* within one program the launched instruction indices strictly increase.
C6_TotalLaunchOrder ==
  entry = "call" =>
    \A i, j \in OneLaunchIdx :
      i < j =>
        LET pi == log[i].base \div blocksPerExe
            pj == log[j].base \div blocksPerExe
        IN  /\ log[i].base = pi * blocksPerExe
            /\ log[j].base = pj * blocksPerExe
            /\ pi < pj \/ (pi = pj /\ log[i].pc < log[j].pc)

\* Program 0 (blocks 0, 1) got its launch before program 1 (blocks 2, 3),
\* both at instruction index 0.
C6_Witness ==
  /\ SteppingReturned
  /\ numBlocks = 4
  /\ Len(LaunchesWithBase(log, 0)) = 1
  /\ Len(LaunchesWithBase(log, 2)) = 1
  /\ \A i \in OneLaunchIdx : log[i].pc = 0

\* ----------------------------------------------------------------------- C7
\* The number of whole warps in a block, found without integer division.
WarpsPerBlock ==
  CHOOSE w \in 0..kBlockSize :
    w * kWarpThreads <= kBlockSize /\ kBlockSize < (w + 1) * kWarpThreads

\* C7: instructionSharedMemory returns the base block-state size plus
\* (2 + warps per block) int32 values for Filter, and exactly the base size
\* for every other opcode, Return included.
C7_SharedMemorySize ==
  (entry = "instructionSharedMemory" /\ hpc = "returned") =>
    sizeResult - SizeofWaveShared =
      IF sizeArg = kFilter THEN (2 + WarpsPerBlock) * SizeofInt32 ELSE 0

\* The size of a Filter instruction has been computed: 40 bytes above the
\* base size for blocks of 256 threads and warps of 32.
C7_Witness ==
  /\ entry = "instructionSharedMemory"
  /\ hpc = "returned"
  /\ sizeArg = kFilter
  /\ sizeResult = SizeofWaveShared + 40

\* ------------------------------------------------------ setupAggregation
SetupReturned == entry = "setupAggregation" /\ hpc = "returned"
SetupLaunchIdx == {i \in 1..Len(log) : log[i].ev = "launch"}
\* The launch of setupAggregation was accepted by the device.
SetupLaunched == \E i \in SetupLaunchIdx : log[i].ok

\* ----------------------------------------------------------------------- C8
\* C8: after setupAggregation with oldBuckets unset and row size R (its
\* launch accepted), the DeviceAggregation at the destination records row
\* size R, its accumulator row starts right after the header, and the R
\* bytes of that row are zero, whatever the buffer held before.
C8_InitializeZeroesRow ==
  (SetupReturned /\ ~op.oldBuckets /\ SetupLaunched) =>
    /\ aggHead.rowSize = op.rowSize
    /\ aggHead.singleRow = SizeofDeviceAggregation
    /\ \A a \in RowAddrs :
         a < SizeofDeviceAggregation + op.rowSize => aggBytes[a] = 0

\* A row of 2 bytes has been cleared in a buffer whose next byte still
\* holds what it held before.
C8_Witness ==
  /\ SetupReturned
  /\ ~op.oldBuckets
  /\ SetupLaunched
  /\ op.rowSize = 2
  /\ aggHead.rowSize = 2
  /\ aggBytes[SizeofDeviceAggregation] = 0
  /\ aggBytes[SizeofDeviceAggregation + 1] = 0
  /\ aggBytes[SizeofDeviceAggregation + 2] = 255

\* ----------------------------------------------------------------------- C9
\* C9: on both launch paths setupAggregation issues exactly one launch and
\* returns only after its wait on the stream, when the stream has nothing
\* pending: an accepted kernel has run to completion.
C9_SetupIsSynchronous ==
  SetupReturned =>
    /\ Cardinality(SetupLaunchIdx) = 1
    /\ WaitIdx = {Len(log)}
    /\ \A i \in SetupLaunchIdx :
         /\ i < Len(log)
         /\ log[i].stream = log[Len(log)].stream
         /\ log[i].kernel =
              IF kernelGiven THEN "CompiledKernel::launch"
                             ELSE "setupAggregationKernel"
    /\ \A s \in Streams : queue[s] = <<>>
    /\ SetupLaunched =>
         IF op.oldBuckets
           THEN Len(rehashCalls) = 1
           ELSE /\ aggHead.rowSize = op.rowSize
                /\ aggHead.singleRow = SizeofDeviceAggregation

\* setupAggregation has returned from a rehash launched through a supplied
\* kernel object, and the rehash has run.
C9_Witness ==
  /\ SetupReturned
  /\ kernelGiven
  /\ op.oldBuckets
  /\ Len(rehashCalls) = 1
  /\ Len(log) = 2

\* ---------------------------------------------------------------------- C10
\* C10: a rehash launch for N >= 1 old buckets has kBlockSize threads per
\* block and min(ceil(N / kBlockSize), 640) blocks: between 1 and 640
\* blocks, a thread for every bucket when N <= 640 * kBlockSize and no
\* block in excess, and 640 blocks for a larger N, with no error raised.
C10_RehashGeometry ==
  (entry = "setupAggregation" /\ op.oldBuckets) =>
    /\ hpc \in {"setupAggregation", "setupWait", "returned"}
    /\ \A i \in SetupLaunchIdx :
         LET blocks == log[i].blocks
             N == op.numOldBuckets
         IN  /\ log[i].threads = kBlockSize
             /\ blocks >= 1
             /\ blocks <= 640
             /\ N <= 640 * kBlockSize =>
                  /\ blocks * log[i].threads >= N
                  /\ (blocks - 1) * log[i].threads < N
             /\ N > 640 * kBlockSize => blocks = 640

\* A rehash of one bucket more than 640 blocks hold has been launched with
\* 640 blocks and has returned.
C10_Witness ==
  /\ SetupReturned
  /\ op.oldBuckets
  /\ op.numOldBuckets = 640 * kBlockSize + 1
  /\ \E i \in SetupLaunchIdx : log[i].blocks = 640 /\ log[i].ok

\* ---------------------------------------------------------------------- C11
\* The dispatches of the log of switch evaluations that follow the i-th one
\* and belong to the same program.
LaterDispatches(i) ==
  {j \in (i + 1)..Len(dispatched) :
     dispatched[j].program = dispatched[i].program}

\* C11: after the stepping driver has launched a Filter at index pc, the
\* instruction at pc + 1 is neither launched nor dispatched in that run:
\* the next index the driver considers for that program is pc + 2.
C11_FilterSkipsNextSlot ==
  /\ \A i \in 1..Len(dispatched) :
       dispatched[i].opCode = kFilter =>
         /\ \A j \in LaterDispatches(i) :
              dispatched[j].pc >= dispatched[i].pc + 2
         /\ (i < Len(dispatched) /\ i + 1 \in LaterDispatches(i)) =>
              dispatched[i + 1].pc = dispatched[i].pc + 2
         /\ (/\ i = Len(dispatched)
             /\ hpc = "instr"
             /\ programIdx = dispatched[i].program) =>
              pc = dispatched[i].pc + 2
  /\ \A a, b \in OneLaunchIdx :
       (a < b /\ log[a].kernel = "oneFilter" /\ log[b].base = log[a].base) =>
         log[b].pc >= log[a].pc + 2

\* A program of a Filter and one more instruction has been stepped through:
\* the Filter at 0 is its only dispatch and its only launch.
C11_Witness ==
  /\ SteppingReturned
  /\ \E i \in 1..Len(dispatched) :
       /\ dispatched[i].opCode = kFilter
       /\ dispatched[i].pc = 0
       /\ Len(At(programs, dispatched[i].program)) = 2
       /\ LaterDispatches(i) = {}
       /\ \E a \in OneLaunchIdx :
            /\ log[a].kernel = "oneFilter"
            /\ log[a].ok
            /\ \A b \in OneLaunchIdx : log[b].base = log[a].base => b = a

\* ---------------------------------------------------------------------- C12
\* callOne has reconstructed its opcode lists.
Reconstructed ==
  /\ entry = "call"
  /\ FLAGS_kernel_gdb
  /\ hpc \notin {"call", "callOne", "crashed"}

\* C12: the opcode list the stepping driver replays for the g-th group of
\* blocks is the instruction list, up to its first Return, of the program
\* the blocks of the group are assigned: params.programs[programIdx[g *
\* blocksPerProgram]].
C12_ReplaysGroupProgram ==
  Reconstructed =>
    \A g \in 0..(Len(programs) - 1) :
      At(programs, g) =
        collectOpCodes(
          At(paramsPrograms, At(paramsProgramIdx, g * blocksPerExe)), 0, <<>>)

\* ---------------------------------------------------------------------- C13
\* The blocks of the p-th range of blocksPerExe blocks.
BlockRange(p) == (p * blocksPerExe)..((p + 1) * blocksPerExe - 1)

\* C13: blocksPerProgram is the length of the longest prefix of
\* programIdx[0..numBlocks) whose entries equal programIdx[0]; the block
\* ranges [p * blocksPerProgram, (p + 1) * blocksPerProgram) of the groups
\* are pairwise disjoint, cover exactly [0, numBlocks), hold blocks of one
\* program each, and are the ranges the single-instruction launches cover.
C13_BlockRangesPartition ==
  Reconstructed =>
    LET groups == 0..(Len(programs) - 1)
    IN  /\ blocksPerExe >= 0
        /\ blocksPerExe <= numBlocks
        /\ \A b \in 0..(blocksPerExe - 1) :
             At(paramsProgramIdx, b) = At(paramsProgramIdx, 0)
        /\ blocksPerExe < numBlocks =>
             At(paramsProgramIdx, blocksPerExe) # At(paramsProgramIdx, 0)
        /\ \A p, q \in groups :
             p # q => BlockRange(p) \cap BlockRange(q) = {}
        /\ UNION {BlockRange(p) : p \in groups} = 0..(numBlocks - 1)
        /\ \A p \in groups :
             \A b, c \in BlockRange(p) :
               At(paramsProgramIdx, b) = At(paramsProgramIdx, c)
        /\ \A i \in OneLaunchIdx :
             \E p \in groups :
               log[i].base..(log[i].base + log[i].blocks - 1) = BlockRange(p)

\* Two programs of two blocks each have been stepped through, with a launch
\* on blocks 0..1 and a launch on blocks 2..3.
C13_Witness ==
  /\ SteppingReturned
  /\ numBlocks = 4
  /\ blocksPerExe = 2
  /\ Len(programs) = 2
  /\ \E i, j \in OneLaunchIdx :
       /\ log[i].base = 0
       /\ log[j].base = 2
       /\ log[i].blocks = 2
       /\ log[j].blocks = 2

\* ---------------------------------------------------------------------- C14
\* The resume point of program i in the array call() was entered with.
EntryStart(i) == IF entryStartPC.null THEN 0 ELSE At(entryStartPC.a, i)

\* The switch evaluations of program i, as indices of the dispatch log.
DispatchesOf(i) == {j \in 1..Len(dispatched) : dispatched[j].program = i}

\* C14: the index the stepping driver starts program i at is 0 when the
\* call was entered without a resume array and entry i of the array the
\* call was entered with otherwise, for every program, whatever was
\* executed or skipped before it.
C14_StartFromEntryArray ==
  Reconstructed =>
    /\ (hpc = "instr" /\ DispatchesOf(programIdx) = {}) =>
         pc = EntryStart(programIdx)
    /\ \A j \in 1..Len(dispatched) :
         (\A k \in DispatchesOf(dispatched[j].program) : k >= j) =>
           dispatched[j].pc = EntryStart(dispatched[j].program)

\* Program 0 is empty and has been executed from 0; program 1 has then been
\* started at its resume point 1.
C14_Witness ==
  /\ SteppingReturned
  /\ entryStartPC = Ptr(<<0, 1>>)
  /\ Len(programs) = 2
  /\ \E j \in 1..Len(dispatched) :
       /\ dispatched[j].program = 1
       /\ dispatched[j].pc = 1
       /\ \A k \in DispatchesOf(1) : k >= j

\* ---------------------------------------------------------------------- C15
\* C15: when the stepping driver meets an opcode other than Filter,
\* Aggregate, ReadAggregate, Plus_BIGINT and LT_BIGINT (Wrap is one) it
\* stops with a fatal assertion: it launches no kernel for that instruction
\* and dispatches and launches no later instruction of any program.
C15_UnhandledOpCodeIsFatal ==
  \A j \in 1..Len(dispatched) :
    dispatched[j].opCode \notin
        {kFilter, kAggregate, kReadAggregate, kPlus_BIGINT, kLT_BIGINT} =>
      /\ hpc = "aborted"
      /\ j = Len(dispatched)
      /\ \A i \in OneLaunchIdx :
           /\ log[i].base <= dispatched[j].program * blocksPerExe
           /\ log[i].base = dispatched[j].program * blocksPerExe =>
                log[i].pc < dispatched[j].pc

\* ---------------------------------------------------------------------- C16
\* C16: every kernel launch (the single-instruction launches, the fused
\* launch of call and the launch of setupAggregation on either path) is
\* followed at once, before any further launch or wait, by a check of the
\* device's last error, and after a check that reports a failure no further
\* launch is issued.
C16_EveryLaunchIsChecked ==
  \A i \in 1..Len(log) :
    log[i].ev = "launch" =>
      /\ i < Len(log) =>
           /\ log[i + 1].ev = "check"
           /\ log[i + 1].ok = log[i].ok
      /\ i = Len(log) => hpc # "returned"
      /\ ~log[i].ok => \A j \in (i + 1)..Len(log) : log[j].ev # "launch"

\* ---------------------------------------------------------------------- C17
\* The instruction array of the program block b is assigned.
ArrayOf(b) == At(paramsPrograms, At(paramsProgramIdx, b))

\* The fused kernel has been launched and has left its stream's queue.
FusedCompleted ==
  /\ entry = "call"
  /\ ~FLAGS_kernel_gdb
  /\ \E i \in FusedLaunchIdx : log[i].ok
  /\ queue[UsedStream] = <<>>

\* The index the preamble leaves block b at: 0 without a resume array, else
\* the resume point of the block's program.
ResumePointOf(b) ==
  IF entryStartPC.null THEN 0
  ELSE At(entryStartPC.a, At(paramsProgramIdx, b))

\* The run of block b is the run from index start to the first Return of
\* its program: the indices start .. Return are read once each in
\* increasing order, the instructions before the Return are dispatched,
\* and the epilogue has run once.
FusedRunFrom(b, run, start) ==
  LET ret == FirstReturn(ArrayOf(b))
  IN  /\ run.reads = [i \in 1..(ret - start) |-> start + i - 1]
      /\ run.steps =
           [i \in 1..(ret - 1 - start) |->
              <<start + i - 1, ArrayOf(b)[start + i]>>]
      /\ run.epilogues = 1
      /\ applied[b] = run.steps

\* C17 as stated: in the fused interpreter every block starts at
\* instruction 0 and dispatches the instructions of its program in
\* increasing index order, each exactly once; at the first Return it runs
\* the epilogue once and ends, and it reads no instruction beyond that
\* Return.
C17_FusedStartsAtZero ==
  \A b \in DOMAIN blockRuns :
    /\ Len(blockRuns[b]) <= 1
    /\ FusedCompleted => Len(blockRuns[b]) = 1
    /\ \A r \in 1..Len(blockRuns[b]) : FusedRunFrom(b, blockRuns[b][r], 0)

\* C17: in the fused interpreter a block starts at instruction 0 of its
\* program when the call has no resume array and at the resume point of
\* its program (an index up to the first Return) when it has one; from
\* there it dispatches the instructions of its program in increasing index
\* order, each exactly once; at the first Return it runs the epilogue once
\* and ends.  For a Return-terminated program the run ends, and it reads
\* no instruction beyond that Return.
C17_FusedRunsToFirstReturn ==
  \A b \in DOMAIN blockRuns :
    /\ Len(blockRuns[b]) <= 1
    /\ FusedCompleted => Len(blockRuns[b]) = 1
    /\ \A r \in 1..Len(blockRuns[b]) :
         FusedRunFrom(b, blockRuns[b][r], ResumePointOf(b))

\* A block whose program has two instructions before its Return has run
\* from resume point 1: it read indices 1 and 2 and dispatched index 1.
C17_Witness ==
  /\ FusedCompleted
  /\ \E b \in DOMAIN blockRuns :
       /\ FirstReturn(ArrayOf(b)) = 3
       /\ ResumePointOf(b) = 1
       /\ Len(blockRuns[b]) = 1
       /\ blockRuns[b][1].reads = <<1, 2>>
       /\ Len(blockRuns[b][1].steps) = 1
       /\ blockRuns[b][1].epilogues = 1

\* ---------------------------------------------------------------------- C18
\* The 0-based index of the first Return of the n-th entry of
\* params.programs, the program the n-th iteration of the driver steps.
ReturnIndex(n) == FirstReturn(At(paramsPrograms, n)) - 1

\* The variables a step of callOne's loops changes.
loopVars == <<hpc, programIdx, pc, log, dispatched, paramsStartPC>>

\* A step of callOne's loops moves forward: it leaves the loops, goes to a
\* later program, enters the inner loop of the current program, or raises pc.
LoopStepAdvances ==
  (entry = "call" /\ hpc \in {"programLoop", "instr"}
     /\ loopVars' # loopVars) =>
    \/ hpc' \in {"callWait", "fatal", "aborted"}
    \/ programIdx' > programIdx /\ hpc' = "programLoop"
    \/ /\ programIdx' = programIdx
       /\ hpc = "programLoop"
       /\ hpc' \in {"programLoop", "instr"}
       /\ hpc' = "programLoop" => programIdx >= Len(programs)
    \/ /\ programIdx' = programIdx
       /\ hpc = "instr"
       /\ hpc' = "instr"
       /\ pc' > pc

\* What holds in every state once callOne has reconstructed its lists: the
\* loop counters are bounded, the reconstruction has read each array at
\* the indices 0 up to its first Return, and the dispatches and launches
\* lie between the start index and the first Return.
BelowReturnState ==
  Reconstructed =>
    /\ programIdx <= Len(programs)
    /\ Len(programs) <= numBlocks
    /\ hpc = "instr" =>
         \/ pc <= Len(At(programs, programIdx)) + 1
         \/ pc = EntryStart(programIdx)
    /\ Len(instrReads) = Len(programs)
    /\ \A g \in 1..Len(instrReads) :
         instrReads[g].indices =
           [i \in 1..(ReturnIndex(instrReads[g].array) + 1) |-> i - 1]
    /\ \A j \in 1..Len(dispatched) :
         /\ dispatched[j].pc >= EntryStart(dispatched[j].program)
         /\ dispatched[j].pc < ReturnIndex(dispatched[j].program)
    /\ \A i \in OneLaunchIdx :
         \E n \in 0..(Len(programs) - 1) :
           /\ log[i].base = n * blocksPerExe
           /\ log[i].pc >= EntryStart(n)
           /\ log[i].pc < ReturnIndex(n)

\* The parts of C18 that concern the loops of callOne, for the calls in
\* which the read of line 125 does not fault: every step of the loops
\* advances a bounded counter, and reads, dispatches and launches stay
\* below the first Return.
SteppingLoopsSound ==
  /\ []BelowReturnState
  /\ [][LoopStepAdvances]_vars

\* The instruction a launched kernel applies to a block lies in the
\* block's program below its first Return.
AppliedBelowReturn ==
  (entry = "call" /\ FLAGS_kernel_gdb) =>
    \A b \in DOMAIN applied :
      \A i \in 1..Len(applied[b]) :
        /\ applied[b][i][1] >= 0
        /\ applied[b][i][1] < FirstReturn(ArrayOf(b)) - 1

\* C18: for Return-terminated programs, any numBlocks >= 0 and any resume
\* values, callOne terminates, which it does not when it faults before its
\* first loop.  The reconstruction reads an instruction array at the
\* indices 0 up to its first Return only.  Every index dispatched or
\* launched for a program is at or above the program's start index and
\* below the index of its first Return, and so is the index of the
\* instruction the launched kernel applies.
C18_SteppingStaysBelowReturn ==
  /\ (entry = "call" /\ FLAGS_kernel_gdb) => hpc # "crashed"
  /\ BelowReturnState
  /\ AppliedBelowReturn

\* ---------------------------------------------------------------------- C19
\* What holds in every state of a setupAggregation call for its mode.
AggregationModeState ==
  entry = "setupAggregation" =>
    IF op.oldBuckets
      THEN /\ Len(rehashCalls) <= 1
           /\ (SetupReturned /\ SetupLaunched) => Len(rehashCalls) = 1
           /\ \A c \in 1..Len(rehashCalls) :
                /\ rehashCalls[c].oldBuckets = op.oldBuckets
                /\ rehashCalls[c].numOldBuckets = op.numOldBuckets
                /\ rehashCalls[c].table = aggHead.table
      ELSE /\ rehashCalls = <<>>
           /\ \A i \in SetupLaunchIdx :
                log[i].blocks = 1 /\ log[i].threads = 1

\* C19: the two aggregation modes exclude each other and are selected by
\* oldBuckets alone.  With oldBuckets set the kernel calls the table's
\* rehash with the old bucket array and the old bucket count and leaves
\* the DeviceAggregation, its row size and its accumulator row as they are;
\* with oldBuckets unset it never calls rehash and the launch is one block
\* of one thread.
C19_ModesAreExclusive ==
  /\ []AggregationModeState
  /\ [][(entry = "setupAggregation" /\ op.oldBuckets) =>
          (aggHead' = aggHead /\ aggBytes' = aggBytes)]_vars
  /\ [][(entry = "setupAggregation" /\ ~op.oldBuckets) =>
          rehashCalls' = rehashCalls]_vars

\* A rehash has run and returned over a DeviceAggregation whose row size
\* and non-zero accumulator row are still in place.
C19_Witness ==
  /\ SetupReturned
  /\ op.oldBuckets
  /\ Len(rehashCalls) = 1
  /\ op.rowSize = 0
  /\ aggHead.rowSize = MaxRowSize
  /\ aggHead.table = "table"
  /\ \A a \in RowAddrs : aggBytes[a] = 255

\* ---------------------------------------------------------------------- C20
\* callOne has returned to call().
CallOneReturned ==
  /\ entry = "call"
  /\ FLAGS_kernel_gdb
  /\ hpc \in {"callWait", "returned"}

\* What holds of params.startPC in every state of a stepping call.
StartPCState ==
  (entry = "call" /\ FLAGS_kernel_gdb) =>
    /\ \A i \in OneLaunchIdx : log[i].startPC = entryStartPC
    /\ paramsStartPC \in {NullPtr, entryStartPC}
    /\ CallOneReturned =>
         IF Len(programs) = 0
           THEN paramsStartPC = entryStartPC
           ELSE IF EntryStart(Len(programs) - 1) = -1
                  THEN paramsStartPC = entryStartPC
                  ELSE paramsStartPC = NullPtr

\* C20: every single-instruction launch is given params with startPC equal
\* to the value the call was entered with.  When callOne returns,
\* params.startPC is null if the last program was executed and is the entry
\* value if the last program was skipped by the sentinel or the call had no
\* programs.  programIdx, programs and the entries of the resume array are
\* never written.
C20_EffectOnParams ==
  /\ []StartPCState
  /\ [][/\ paramsProgramIdx' = paramsProgramIdx
        /\ paramsPrograms' = paramsPrograms
        /\ entryStartPC' = entryStartPC
        /\ numBlocks' = numBlocks]_vars

\* Program 0 has been executed with a launch and program 1, the last, has
\* been skipped by the sentinel: callOne has returned with the resume array
\* of the entry in params.startPC.
C20_Witness ==
  /\ SteppingReturned
  /\ entryStartPC = Ptr(<<0, -1>>)
  /\ paramsStartPC = entryStartPC
  /\ \E i \in OneLaunchIdx :
       /\ log[i].base = 0
       /\ log[i].ok
       /\ log[i].startPC = Ptr(<<0, -1>>)

====
